---- MODULE Spec2Model ----
(***************************************************************************)
(* Cat-voting demo: the Express/SQLite backend (src/backend/server.js) and *)
(* the client data layer (CatsProvider in src/frontend/src/services/       *)
(* auth.js).                                                               *)
(*                                                                         *)
(* The store is one sqlite3.Database handle.  A statement handed to it is  *)
(* either started at once or queued: the handle keeps a FIFO queue, the    *)
(* set of statements in flight and a `locked' flag; a statement issued     *)
(* inside db.serialize is exclusive.  A statement's effect on the tables,  *)
(* its callback and the hand-over to the next queued statement are one     *)
(* step (a completion).  Request handlers run to completion on the event   *)
(* loop, so each handler is one step as well.                              *)
(***************************************************************************)
EXTENDS Integers, Sequences, FiniteSets, TLC

VARIABLES
    cats,             \* rows of table cats: [id, image_url, external_id]
    votes,            \* rows of table votes: [id, cat_id, vote_type]
    monthly_winners,  \* rows of table monthly_winners
    seq,              \* AUTOINCREMENT counters: [cats, votes, monthly_winners]
    queue,            \* the handle's queue of calls not yet started
    running,          \* statements in flight (the handle's `pending')
    locked,           \* the handle's `locked' flag
    now,              \* the server clock: [y, m] in UTC
    nreq,             \* number of requests received so far
    last,             \* the most recent response to a request from outside
                      \* the modelled client: [req, op, status, body]
    inserted,         \* request number -> `inserted' of that POST /api/cats
    changes,          \* request number -> rows its statements have created
    logged,           \* the last line of console.error: [req, k, stmt]
    afterClear,       \* a clear has answered; since then no write was
                      \* requested and none of its deletes has failed
    inbox,            \* client call -> the outcome its await resumes with
    calls,            \* the client's calls in progress (CatsProvider)
    provider,         \* CatsProvider state: [cats, winner, loading, error]
    history,          \* of the client's list requests: the calls that sent
                      \* them, in the order sent (issued), the position in
                      \* it of the request whose result cats holds (shown),
                      \* and whether a fetchCats cycle has failed
    sentry            \* what the Sentry SDK was handed: the log last given to
                      \* beforeSendLog and what came back; the response of
                      \* the last request made on its own, its outcome and
                      \* the captureException calls; with counts

vars == <<cats, votes, monthly_winners, seq, queue, running, locked, now, nreq,
          last, inserted, changes, logged, afterClear, inbox, calls, provider,
          history, sentry>>

store == <<cats, votes, monthly_winners, seq>>
handle == <<queue, running, locked>>
client == <<calls, provider, history, sentry>>

----------------------------------------------------------------------------
(* Bounds of the model. *)

MaxReqs == 3        \* requests received in one run
MaxWinners == 2     \* rows an outside process writes to monthly_winners
MaxTicks == 1       \* months the clock advances in one run

NULL == "NULL"

(* Request bodies.  A JSON body is a record; a missing field is a missing   *)
(* record field, which destructuring turns into undefined.                  *)
VoteBodies ==
    { [cat_id |-> 1, vote_type |-> "upvote"],
      [cat_id |-> 1, vote_type |-> "downvote"],
      [cat_id |-> 2, vote_type |-> "upvote"],
      [cat_id |-> 1, vote_type |-> "Upvote"],
      [cat_id |-> 0, vote_type |-> "upvote"],
      [cat_id |-> 1],
      [vote_type |-> "downvote"] }

(* Bodies of POST /api/cats.  The first has no field `cats' (the client  *)
(* misspelt it), so that body.cats is undefined; an element of the list    *)
(* is a record, or JSON null.                                              *)
JsonNull == [null |-> TRUE]
SeedBodies ==
    { [cat |-> << >>],
      [cats |-> << >>],
      [cats |-> << [id |-> "a", url |-> "u2"] >>],
      [cats |-> << [id |-> "c", url |-> "u2"], [id |-> "c", url |-> "u1"] >>],
      [cats |-> << [id |-> "d"] >>],
      [cats |-> << JsonNull >>] }

(* Rows an outside process may write to monthly_winners:                   *)
(* <<cat_id, month_year, upvote_count>>.                                   *)
WinnerWrites ==
    { <<1, "2026-09", 2>>, <<2, "2026-9", 2>>,
      <<1, "2026-10", 0>>, <<2, "2026-10", 2>>, <<1, "2026-11", 2>> }

----------------------------------------------------------------------------
(* JavaScript helpers. *)

\* obj.f, undefined (NULL once bound to a statement) when the field is absent
Field(obj, f) == IF f \in DOMAIN obj THEN obj[f] ELSE NULL

\* !obj.f for a numeric field (absent or 0) and for a string field (absent
\* or empty)
FalsyNum(obj, f) == f \notin DOMAIN obj \/ obj[f] = 0
FalsyStr(obj, f) == f \notin DOMAIN obj \/ obj[f] = ""

\* new Date().toISOString().slice(0, 7)
Pad2(n) == IF n < 10 THEN "0" \o ToString(n) ELSE ToString(n)
currentMonth(d) == ToString(d.y) \o "-" \o Pad2(d.m)

----------------------------------------------------------------------------
(* The SQL statements, as functions of the tables. *)

NoVote == [id |-> 0, cat_id |-> 0, vote_type |-> NULL]

\* FROM cats JOIN votes ON cats.id = votes.cat_id
InnerJoin(cs, vs) ==
    { <<c, v>> \in cs \X vs : c.id = v.cat_id }

\* (mutant) a plain JOIN where the LEFT JOIN belongs
LeftJoinAsInner(cs, vs) == InnerJoin(cs, vs)

\* FROM cats LEFT JOIN votes ON cats.id = votes.cat_id
LeftJoin(cs, vs) ==
    InnerJoin(cs, vs) \cup
    { <<c, NoVote>> : c \in { c \in cs : \A v \in vs : v.cat_id # c.id } }

\* SUM(CASE WHEN votes.vote_type = type THEN 1 ELSE 0 END) over the joined
\* rows G of one group
RECURSIVE SumCase(_, _)
SumCase(G, type) ==
    IF G = {} THEN 0
    ELSE LET j == CHOOSE j \in G : TRUE
         IN  (IF j[2].vote_type = type THEN 1 ELSE 0) + SumCase(G \ {j}, type)

\* GROUP BY cats.id with the two SUM(CASE ...) columns
CatRows(cs, vs) ==
    LET J == LeftJoin(cs, vs)
        Group(id) == { j \in J : j[1].id = id }
    IN  { [id |-> j[1].id, image_url |-> j[1].image_url,
           upvotes |-> SumCase(Group(j[1].id), "upvote"),
           downvotes |-> SumCase(Group(j[1].id), "downvote")] : j \in J }

\* ORDER BY upvotes DESC: every order of the rows that is descending in
\* upvotes (the order of rows with equal upvotes is the engine's choice)
RECURSIVE OrderByUpvotesDesc(_)
OrderByUpvotesDesc(R) ==
    IF R = {} THEN { << >> }
    ELSE UNION { { <<r>> \o s : s \in OrderByUpvotesDesc(R \ {r}) } :
                 r \in { r \in R : \A q \in R : q.upvotes <= r.upvotes } }

\* the results db.all may hand to GET /api/cats
AllCats(cs, vs) == OrderByUpvotesDesc(CatRows(cs, vs))

\* (mutant) the join without ORDER BY upvote_count DESC
WinnerRowsUnordered(cs, ws, month) ==
    LET J == { <<w, c>> \in ws \X cs : w.cat_id = c.id /\ w.month_year = month }
    IN  IF J = {} THEN { JsonNull }
        ELSE { [id |-> j[2].id, image_url |-> j[2].image_url,
                upvote_count |-> j[1].upvote_count] : j \in J }

\* the rows db.get may hand to GET /api/winner: the first row of the join
\* in descending upvote_count, or none (answered as JSON null)
WinnerRows(cs, ws, month) ==
    LET J == { <<w, c>> \in ws \X cs : w.cat_id = c.id /\ w.month_year = month }
        Top == { j \in J : \A k \in J : k[1].upvote_count <= j[1].upvote_count }
    IN  IF J = {} THEN { JsonNull }
        ELSE { [id |-> j[2].id, image_url |-> j[2].image_url,
                upvote_count |-> j[1].upvote_count] : j \in Top }

\* (mutant) the foreign key left unenforced
ForeignKeyOff(cs, cat_id) == TRUE

\* FOREIGN KEY (cat_id) REFERENCES cats(id), with PRAGMA foreign_keys = ON
ForeignKeyOk(cs, cat_id) == \E c \in cs : c.id = cat_id

\* (mutant) external_id without its UNIQUE constraint
CatIgnoredNotUnique(cs, url, ext) == url = NULL

\* INSERT OR IGNORE INTO cats (image_url, external_id): the row is skipped
\* when image_url is NULL (NOT NULL) or external_id is taken (UNIQUE; NULLs
\* never collide)
CatIgnored(cs, url, ext) ==
    \/ url = NULL
    \/ ext # NULL /\ \E c \in cs : c.external_id = ext

----------------------------------------------------------------------------
(* The sqlite3.Database handle: Schedule and Process. *)

\* statement k of request r, which client call t sent (0: no call of the
\* modelled client)
Stmt(r, t, k, kind) ==
    [req |-> r, from |-> t, k |-> k, kind |-> kind, cat_id |-> 0,
     vote_type |-> NULL, url |-> NULL, ext |-> NULL, month |-> NULL,
     after |-> FALSE]

Handle == [queue |-> queue, running |-> running, locked |-> locked]

\* A statement is queued when the handle is locked or the statement is
\* issued inside db.serialize, and statements are in flight; otherwise it
\* starts at once.  A queued statement issued inside db.serialize is
\* exclusive.
Schedule(d, s, serialize) ==
    IF (d.locked \/ serialize) /\ d.running # {}
    THEN [d EXCEPT !.queue = Append(@, [call |-> s, exclusive |-> serialize])]
    ELSE [d EXCEPT !.locked = FALSE, !.running = @ \cup {s}]

\* Start queued statements in order; an exclusive one waits until nothing
\* is in flight and then runs alone.
RECURSIVE Process(_)
Process(d) ==
    IF (~d.locked \/ d.running = {}) /\ d.queue # << >>
    THEN LET c == Head(d.queue) IN
         IF c.exclusive /\ d.running # {} THEN d
         ELSE LET e == [queue |-> Tail(d.queue), locked |-> c.exclusive,
                        running |-> d.running \cup {c.call}]
              IN  IF e.locked THEN e ELSE Process(e)
    ELSE d

SetHandle(d) ==
    /\ queue' = d.queue
    /\ running' = d.running
    /\ locked' = d.locked

\* res.status(st).json(body) for request r; the answer reaches the client
\* call t that sent the request
Respond(r, t, op, st, body) ==
    LET res == [req |-> r, op |-> op, status |-> st, body |-> body]
    IN  /\ last' = IF t = 0 THEN res ELSE last
        /\ inbox' = IF t = 0 THEN inbox ELSE (t :> res) @@ inbox

\* The closure of a POST /api/cats call (its `inserted') lives as long as a
\* callback of the call is outstanding; it is kept here for the call of the
\* most recent response as well.  ins and chg are the new values.
Closures(ins, chg) ==
    LET live == { r \in DOMAIN ins :
                     \/ r = last'.req
                     \/ \E s \in running' : s.req = r
                     \/ \E i \in 1..Len(queue') : queue'[i].call.req = r }
    IN  /\ inserted' = [r \in live |-> ins[r]]
        /\ changes' = [r \in live |-> chg[r]]

----------------------------------------------------------------------------
(* Request handlers.  A request is number nreq + 1; t is the client call  *)
(* that sent it, 0 for a request of another user of the API.               *)

Receive(t) ==
    /\ t = 0 => nreq < MaxReqs
    /\ nreq' = nreq + 1
    /\ IF t = 0 THEN UNCHANGED client ELSE TRUE

\* app.get('/api/cats'): issue the aggregation; the callback answers
ListCats(t) ==
    /\ Receive(t)
    /\ SetHandle(Schedule(Handle,
           [Stmt(nreq + 1, t, 1, "all_cats") EXCEPT !.after = afterClear],
           FALSE))
    /\ UNCHANGED <<store, now, last, inserted, changes, logged, afterClear,
                   inbox>>

\* app.get('/api/winner'): the month key is computed when the request arrives
GetWinner(t) ==
    /\ Receive(t)
    /\ SetHandle(Schedule(Handle,
           [Stmt(nreq + 1, t, 1, "get_winner") EXCEPT
                !.month = currentMonth(now), !.after = afterClear], FALSE))
    /\ UNCHANGED <<store, now, last, inserted, changes, logged, afterClear,
                   inbox>>

\* (mutant) the test without the check of the two literals
InvalidVoteAnyType(body) ==
    FalsyNum(body, "cat_id") \/ FalsyStr(body, "vote_type")

\* the test of line 129
InvalidVote(body) ==
    \/ FalsyNum(body, "cat_id")
    \/ FalsyStr(body, "vote_type")
    \/ body.vote_type \notin {"upvote", "downvote"}

\* app.post('/api/votes')
SubmitVote(t, body) ==
    /\ Receive(t)
    /\ IF InvalidVote(body)
       THEN /\ Respond(nreq + 1, t, "vote", 400, "Invalid cat_id or vote_type")
            /\ UNCHANGED <<handle, afterClear>>
       ELSE /\ SetHandle(Schedule(Handle,
                   [Stmt(nreq + 1, t, 1, "insert_vote") EXCEPT
                        !.cat_id = body.cat_id,
                        !.vote_type = body.vote_type], FALSE))
            /\ afterClear' = FALSE
            /\ UNCHANGED <<last, inbox>>
    /\ Closures(inserted, changes)
    /\ UNCHANGED <<store, now, logged>>

\* the test of line 148
InvalidCats(body) ==
    \/ "cats" \notin DOMAIN body
    \/ Len(body.cats) = 0

\* cats.forEach: one INSERT OR IGNORE per element, in order; reading
\* cat.url of a null element throws and ends the loop
RECURSIVE ForEachCat(_, _, _, _, _)
ForEachCat(d, r, t, cs, k) ==
    IF k > Len(cs) \/ cs[k] = JsonNull THEN d
    ELSE ForEachCat(
             Schedule(d, [Stmt(r, t, k, "insert_cat") EXCEPT
                              !.url = Field(cs[k], "url"),
                              !.ext = Field(cs[k], "id")], FALSE),
             r, t, cs, k + 1)

Throws(cs) == \E k \in 1..Len(cs) : cs[k] = JsonNull

\* app.post('/api/cats'): `inserted' is read for the response as soon as
\* the loop has issued the statements
SeedCats(t, body) ==
    /\ Receive(t)
    /\ IF InvalidCats(body)
       THEN /\ Respond(nreq + 1, t, "seed", 400, "Invalid cats data")
            /\ UNCHANGED <<handle, afterClear>>
            /\ Closures(inserted, changes)
       ELSE /\ SetHandle(ForEachCat(Handle, nreq + 1, t, body.cats, 1))
            /\ afterClear' = FALSE
            /\ IF Throws(body.cats)
               THEN Respond(nreq + 1, t, "seed", 500, "Internal Server Error")
               ELSE Respond(nreq + 1, t, "seed", 200,
                            [success |-> TRUE, inserted |-> 0])
            /\ Closures((nreq + 1 :> 0) @@ inserted,
                        (nreq + 1 :> 0) @@ changes)
    /\ UNCHANGED <<store, now, logged>>

\* app.post('/api/clear'): three deletes inside db.serialize, then the answer
ClearAll(t) ==
    /\ Receive(t)
    /\ SetHandle(
           Schedule(
               Schedule(
                   Schedule(Handle, Stmt(nreq + 1, t, 1, "delete_votes"), TRUE),
                   Stmt(nreq + 1, t, 2, "delete_winners"), TRUE),
               Stmt(nreq + 1, t, 3, "delete_cats"), TRUE))
    /\ Respond(nreq + 1, t, "clear", 200, "Database cleared")
    /\ afterClear' = TRUE
    /\ Closures(inserted, changes)
    /\ UNCHANGED <<store, now, logged>>

----------------------------------------------------------------------------
(* Statement completion: the statement's effect on the tables, then its    *)
(* callback, then the hand-over to the queue.  `fault' is a failure of the *)
(* store itself (SQLITE_BUSY, an I/O error).                               *)

Finish(s) ==
    /\ s \in running
    /\ SetHandle(Process([Handle EXCEPT !.running = @ \ {s}]))
    /\ UNCHANGED client

\* console.error in a callback
LogError(s) == logged' = [req |-> s.req, k |-> s.k, stmt |-> s.kind]

\* db.all callback of GET /api/cats
CompleteAllCats(s, fault) ==
    /\ s.kind = "all_cats"
    /\ Finish(s)
    /\ IF fault
       THEN /\ LogError(s)
            /\ Respond(s.req, s.from, "list", 500, "Failed to fetch cats")
       ELSE /\ \E rows \in AllCats(cats, votes) :
                   Respond(s.req, s.from, "list", 200, rows)
            /\ UNCHANGED logged
    /\ Closures(inserted, changes)
    /\ UNCHANGED <<store, now, nreq, afterClear>>

\* db.get callback of GET /api/winner
CompleteGetWinner(s, fault) ==
    /\ s.kind = "get_winner"
    /\ Finish(s)
    /\ IF fault
       THEN /\ LogError(s)
            /\ Respond(s.req, s.from, "winner", 500, "Failed to fetch winner")
       ELSE /\ \E row \in WinnerRows(cats, monthly_winners, s.month) :
                   Respond(s.req, s.from, "winner", 200, row)
            /\ UNCHANGED logged
    /\ Closures(inserted, changes)
    /\ UNCHANGED <<store, now, nreq, afterClear>>

\* INSERT INTO votes and the db.run callback of POST /api/votes
CompleteInsertVote(s, fault) ==
    /\ s.kind = "insert_vote"
    /\ Finish(s)
    /\ IF fault \/ ~ForeignKeyOk(cats, s.cat_id)
       THEN /\ LogError(s)
            /\ Respond(s.req, s.from, "vote", 500, "Failed to add vote")
            /\ UNCHANGED <<votes, seq>>
       ELSE /\ votes' = votes \cup {[id |-> seq.votes + 1, cat_id |-> s.cat_id,
                                     vote_type |-> s.vote_type]}
            /\ seq' = [seq EXCEPT !.votes = @ + 1]
            /\ Respond(s.req, s.from, "vote", 200, "Vote recorded")
            /\ UNCHANGED logged
    /\ Closures(inserted, changes)
    /\ UNCHANGED <<cats, monthly_winners, now, nreq, afterClear>>

\* INSERT OR IGNORE INTO cats and the db.run callback of POST /api/cats
CompleteInsertCat(s, fault) ==
    /\ s.kind = "insert_cat"
    /\ Finish(s)
    /\ UNCHANGED <<last, inbox>>
    /\ IF fault
       THEN /\ LogError(s)
            /\ Closures(inserted, changes)
            /\ UNCHANGED <<cats, seq>>
       ELSE /\ IF CatIgnored(cats, s.url, s.ext)
               THEN /\ Closures([inserted EXCEPT ![s.req] = @ + 1], changes)
                    /\ UNCHANGED <<cats, seq>>
               ELSE /\ cats' = cats \cup {[id |-> seq.cats + 1,
                                           image_url |-> s.url,
                                           external_id |-> s.ext]}
                    /\ seq' = [seq EXCEPT !.cats = @ + 1]
                    /\ Closures([inserted EXCEPT ![s.req] = @ + 1],
                                [changes EXCEPT ![s.req] = @ + 1])
            /\ UNCHANGED logged
    /\ UNCHANGED <<votes, monthly_winners, now, nreq, afterClear>>

\* DELETE FROM votes / monthly_winners / cats and their callbacks; deleting
\* a cat that a vote or a winner row references violates the foreign key
\* and fails the statement
CompleteDelete(s, fault) ==
    /\ s.kind \in {"delete_votes", "delete_winners", "delete_cats"}
    /\ Finish(s)
    /\ UNCHANGED <<last, inbox>>
    /\ LET referenced ==
               \E c \in cats : \E x \in votes \cup monthly_winners :
                   x.cat_id = c.id
           fails == fault \/ (s.kind = "delete_cats" /\ referenced)
       IN  /\ IF fails THEN LogError(s) /\ afterClear' = FALSE
                       ELSE UNCHANGED <<logged, afterClear>>
           /\ votes' = IF ~fails /\ s.kind = "delete_votes" THEN {} ELSE votes
           /\ monthly_winners' =
                  IF ~fails /\ s.kind = "delete_winners" THEN {}
                  ELSE monthly_winners
           /\ cats' = IF ~fails /\ s.kind = "delete_cats" THEN {} ELSE cats
    /\ Closures(inserted, changes)
    /\ UNCHANGED <<seq, now, nreq>>

----------------------------------------------------------------------------
(* The environment: the process that fills monthly_winners, and the clock. *)

\* a row written to monthly_winners from outside the API
WriteWinner(cat_id, month, count) ==
    /\ seq.monthly_winners < MaxWinners
    /\ ForeignKeyOk(cats, cat_id)
    /\ monthly_winners' = monthly_winners \cup
           {[id |-> seq.monthly_winners + 1, cat_id |-> cat_id,
             month_year |-> month, upvote_count |-> count]}
    /\ seq' = [seq EXCEPT !.monthly_winners = @ + 1]
    /\ afterClear' = FALSE
    /\ UNCHANGED <<cats, votes, handle, now, nreq, last, inserted, changes,
                   logged, inbox, client>>

\* the months passed since the server started
Elapsed == (now.y - 2026) * 12 + now.m - 9

\* the calendar month changes
Tick ==
    /\ Elapsed < MaxTicks
    /\ now' = IF now.m = 12 THEN [y |-> now.y + 1, m |-> 1]
              ELSE [now EXCEPT !.m = @ + 1]
    /\ UNCHANGED <<store, handle, nreq, last, inserted, changes, logged,
                   afterClear, inbox, client>>

----------------------------------------------------------------------------
(* The client data layer (CatsProvider).  A call is one invocation of     *)
(* fetchCats, fetchWinner or submitVote from outside the provider: the     *)
(* two of the mount effect, and one submitVote per vote of the user.  A    *)
(* call runs from one await to the next in one step.  The request it has   *)
(* sent is in flight until the server receives it or the network fails;    *)
(* the outcome waits in inbox until the call resumes.                      *)

MaxVotes == 1       \* votes the user casts in one run
MaxQuickVotes == 2   \* votes cast in quick succession

\* what the external image source may answer
ExternalImages == { <<[id |-> "a", url |-> "u1"]>>, << >> }

\* the buttons the user may press: handleVote(cat.id, 'upvote') and
\* handleVote(cat.id, 'downvote') of a cat on the screen
UserVotes == { <<1, "upvote">>, <<2, "downvote">> }

\* fetch rejects: the request could not be made
NetworkError ==
    [req |-> 0, op |-> "network", status |-> 0,
     body |-> "Network request failed"]

\* response.ok
ResponseOk(res) == res.status \in 200..299

\* (mutant) a test that finds the text in no message
IncludesNever(s, p) == FALSE

\* String.prototype.includes
Includes(s, p) ==
    \E i \in 1..(Len(s) - Len(p) + 1) : SubSeq(s, i, i + Len(p) - 1) = p

\* The catch block of makeRequest: the error is captured unless its message
\* has the text 'API Error', and thrown again.  `captured' counts the
\* calls of Sentry.captureException with this error.
Rethrown(message, captured) ==
    [threw |-> TRUE, message |-> message,
     captured |-> IF Includes(message, "API Error") THEN captured
                  ELSE captured + 1]

\* What `await api.get(..)' or `await api.post(..)' resumes with: the
\* parsed body, or an exception.  fetch may reject; the body of a response
\* may fail to be read (response.text(), response.json()); a response that
\* is not ok becomes an error that is captured where it is made.
makeRequest(res) ==
    IF res.op = "network" THEN Rethrown(res.body, 0)
    ELSE IF "unreadable" \in DOMAIN res THEN Rethrown(res.unreadable, 0)
    ELSE IF ~ResponseOk(res)
         THEN Rethrown("API Error: " \o ToString(res.status), 1)
         ELSE [threw |-> FALSE, data |-> res.body, captured |-> 0]

\* what the awaits of fetch(..) and response.json() of the external image
\* source resume with; the status is not looked at
awaitExternal(res) ==
    IF res.op = "network" THEN [threw |-> TRUE, message |-> res.body]
    ELSE [threw |-> FALSE, data |-> res.body]

\* a call that has not run yet
NewCall(root) ==
    [root |-> root, pc |-> "start", inflight |-> FALSE, trace |-> << >>,
     cat_id |-> 0, vote_type |-> NULL, wrote |-> "pending",
     fetched |-> << >>, screen |-> "none"]

\* the call sends request `what' and awaits its outcome
Await(c, what) ==
    [c EXCEPT !.pc = what, !.inflight = TRUE, !.trace = Append(@, what)]

\* the calls of one run: the two of the mount effect and the votes
CallIds == 1..(2 + MaxVotes + MaxQuickVotes)

\* the state of a call and of the provider after a step of the call
After(c, p) == [call |-> c, provider |-> p]

\* fetchWinner, to its await
fetchWinner(c, p) ==
    After(Await([c EXCEPT !.trace = Append(@, "fetchWinner")], "winner"), p)

\* fetchWinner resumes: setWinner, or the catch that only logs
resumeFetchWinner(c, p, o) ==
    After([c EXCEPT !.pc = "done"],
          IF o.threw THEN p ELSE [p EXCEPT !.winner = o.data])

\* fetchCats, to its first await
fetchCats(c, p) ==
    After(Await([c EXCEPT !.trace = Append(@, "fetchCats")], "list1"),
          [p EXCEPT !.loading = TRUE, !.error = NULL])

\* fetchCats has returned: submitVote goes on to fetchWinner, the mount
\* effect did not await it
returnFetchCats(c, p) ==
    IF c.root = "submitVote" THEN fetchWinner(c, p)
    ELSE After([c EXCEPT !.pc = "done"], p)

\* the catch and the finally of fetchCats
catchFetchCats(c, p, message) ==
    returnFetchCats(c, [p EXCEPT !.error = message, !.loading = FALSE])

\* setCats and the finally of fetchCats
setCats(c, p, rows) ==
    returnFetchCats(c, [p EXCEPT !.cats = rows, !.loading = FALSE])

\* (mutant) fetchCats seeding an empty set when the external fetch threw
resumeFetchCatsSeedsAnyway(c, p, o) ==
    IF o.threw /\ c.pc = "external"
    THEN After(Await([c EXCEPT !.fetched = << >>], "seed"), p)
    ELSE IF o.threw THEN catchFetchCats(c, p, o.message)
    ELSE IF c.pc = "list1"
         THEN IF Len(o.data) = 0 THEN After(Await(c, "external"), p)
              ELSE setCats(c, p, o.data)
    ELSE IF c.pc = "external"
         THEN After(Await([c EXCEPT !.fetched = o.data], "seed"), p)
    ELSE IF c.pc = "seed" THEN After(Await(c, "list2"), p)
    ELSE setCats(c, p, o.data)

\* fetchCats resumes from one of its awaits
resumeFetchCats(c, p, o) ==
    IF o.threw THEN catchFetchCats(c, p, o.message)
    ELSE IF c.pc = "list1"
         THEN IF Len(o.data) = 0 THEN After(Await(c, "external"), p)
              ELSE setCats(c, p, o.data)
    ELSE IF c.pc = "external"
         THEN After(Await([c EXCEPT !.fetched = o.data], "seed"), p)
    ELSE IF c.pc = "seed" THEN After(Await(c, "list2"), p)
    ELSE setCats(c, p, o.data)

\* (mutant) submitVote refreshing whether or not the write threw
resumeSubmitVoteAlwaysRefreshes(c, p, o) ==
    IF o.threw
    THEN fetchCats([c EXCEPT !.wrote = "threw"],
                   [p EXCEPT !.error = o.message])
    ELSE fetchCats([c EXCEPT !.wrote = "returned"], p)

\* submitVote resumes from the await of the write
resumeSubmitVote(c, p, o) ==
    IF o.threw
    THEN After([c EXCEPT !.pc = "done", !.wrote = "threw"],
               [p EXCEPT !.error = o.message])
    ELSE fetchCats([c EXCEPT !.wrote = "returned"], p)

\* the list request call t has waiting for an answer: the last it sent
RECURSIVE LastOf(_, _)
LastOf(issued, t) ==
    IF issued = << >> THEN 0
    ELSE IF issued[Len(issued)] = t THEN Len(issued)
    ELSE LastOf(SubSeq(issued, 1, Len(issued) - 1), t)

\* the history after call t has resumed with outcome o and gone from c to
\* d: a list request sent, the result of one shown, a cycle failed
Noted(h, t, c, d, o) ==
    LET inCycle == c.pc \in {"list1", "external", "seed", "list2"}
        sends == d.inflight /\ d.pc \in {"list1", "list2"}
        shows == c.pc \in {"list1", "list2"} /\ ~o.threw /\ ~sends
                 /\ d.pc \notin {"external"}
    IN  [issued |-> IF sends THEN Append(h.issued, t) ELSE h.issued,
         shown |-> IF shows THEN LastOf(h.issued, t) ELSE h.shown,
         failed |-> h.failed \/ (inCycle /\ o.threw)]

\* the effect of the provider's mount: fetchCats(); fetchWinner();
Mount ==
    /\ Len(calls) = 0
    /\ LET a == fetchCats(NewCall("fetchCats"), provider)
           b == fetchWinner(NewCall("fetchWinner"), a.provider)
       IN  /\ calls' = <<a.call, b.call>>
           /\ provider' = b.provider
           /\ history' = [history EXCEPT !.issued = Append(@, 1)]
    /\ UNCHANGED <<store, handle, now, nreq, last, inserted, changes, logged,
                   afterClear, inbox, sentry>>

\* the submitVote calls so far
VotesCast == Cardinality({t \in 1..Len(calls) : calls[t].root = "submitVote"})

\* The expression submitVote(catId, voteType) in handleVote: the call of an
\* async function returns a promise; what the function throws rejects the
\* promise and is not thrown to the caller.
SubmitVoteCallThrows == FALSE

\* handleVote after its call of submitVote, which it does not await: the
\* log and breadcrumb of the try block, or those of the catch
handleVote(c) ==
    [c EXCEPT !.screen = IF SubmitVoteCallThrows THEN "Vote failed"
                         ELSE "Vote completed successfully"]

\* a vote button of a cat of the list is pressed: handleVote, with
\* submitVote to its await
Press(catId, voteType) ==
    /\ Len(calls) > 0
    /\ \E k \in 1..Len(provider.cats) : provider.cats[k].id = catId
    /\ calls' = Append(calls,
           handleVote(Await([NewCall("submitVote") EXCEPT
                                 !.cat_id = catId, !.vote_type = voteType],
                            "vote")))
    /\ UNCHANGED <<store, handle, now, nreq, last, inserted, changes, logged,
                   afterClear, inbox, provider, history, sentry>>

\* the user votes
Vote(catId, voteType) ==
    /\ VotesCast < MaxVotes
    /\ Press(catId, voteType)

\* the user votes, and votes again before the first vote has settled
VoteAgain(catId, voteType) ==
    /\ VotesCast < MaxQuickVotes
    /\ Press(catId, voteType)

\* the request of call t reaches the server
Deliver(t) ==
    /\ t \in 1..Len(calls)
    /\ calls[t].inflight
    /\ calls' = [calls EXCEPT ![t].inflight = FALSE]
    /\ UNCHANGED <<provider, history, sentry>>
    /\ \/ /\ calls[t].pc = "vote"
          /\ SubmitVote(t, [cat_id |-> calls[t].cat_id,
                            vote_type |-> calls[t].vote_type])
       \/ /\ calls[t].pc \in {"list1", "list2"}
          /\ ListCats(t)
       \/ /\ calls[t].pc = "seed"
          /\ SeedCats(t, [cats |-> calls[t].fetched])
       \/ /\ calls[t].pc = "winner"
          /\ GetWinner(t)

\* the external image source answers call t: fetch, then response.json()
ExternalFetch(t, images) ==
    /\ t \in 1..Len(calls)
    /\ calls[t].inflight
    /\ calls[t].pc = "external"
    /\ calls' = [calls EXCEPT ![t].inflight = FALSE]
    /\ inbox' = (t :> [req |-> 0, op |-> "external", status |-> 200,
                       body |-> images]) @@ inbox
    /\ UNCHANGED <<store, handle, now, nreq, last, inserted, changes, logged,
                   afterClear, provider, history, sentry>>

\* the request of call t fails on the way
NetworkFail(t) ==
    /\ t \in 1..Len(calls)
    /\ calls[t].inflight
    /\ calls' = [calls EXCEPT ![t].inflight = FALSE]
    /\ inbox' = (t :> NetworkError) @@ inbox
    /\ UNCHANGED <<store, handle, now, nreq, last, inserted, changes, logged,
                   afterClear, provider, history, sentry>>

\* call t resumes with the outcome of what it awaited
Resume(t) ==
    /\ t \in DOMAIN inbox
    /\ LET c == calls[t]
           o == IF c.pc = "external" THEN awaitExternal(inbox[t])
                ELSE makeRequest(inbox[t])
           a == IF c.pc = "vote" THEN resumeSubmitVote(c, provider, o)
                ELSE IF c.pc = "winner"
                     THEN resumeFetchWinner(c, provider, o)
                ELSE resumeFetchCats(c, provider, o)
       IN  /\ calls' = [calls EXCEPT ![t] = a.call]
           /\ provider' = a.provider
           /\ history' = Noted(history, t, c, a.call, o)
    /\ inbox' = [u \in DOMAIN inbox \ {t} |-> inbox[u]]
    /\ UNCHANGED <<store, handle, now, nreq, last, inserted, changes, logged,
                   afterClear, sentry>>

----------------------------------------------------------------------------
(* WinnerScreen: what it shows of the provider's cats. *)

\* obj?.f || 0
OrZero(obj, f) == IF f \in DOMAIN obj THEN obj[f] ELSE 0

\* (x.upvotes || 0) - (x.downvotes || 0), of a cat or of null
Score(x) == OrZero(x, "upvotes") - OrZero(x, "downvotes")

\* cats.reduce((max, cat) => catScore > maxScore ? cat : max, null), from
\* element k on
RECURSIVE Reduce(_, _, _)
Reduce(cs, k, max) ==
    IF k > Len(cs) THEN max
    ELSE Reduce(cs, k + 1, IF Score(cs[k]) > Score(max) THEN cs[k] ELSE max)

\* the cat on the winner card; null stands for the text 'No votes yet!'
WinnerShown(cs) == Reduce(cs, 1, JsonNull)

----------------------------------------------------------------------------
(* The logs handed to the Sentry SDK (Sentry.init in App.js).  A log is    *)
(* [message, attributes]; the attributes kept are the ones beforeSendLog   *)
(* reads and the ones that tell the logs apart.                            *)

MaxLogs == 3        \* logs handed to the SDK in one run

\* Date.now() - startTime of a fetchCats cycle, in milliseconds
Durations == {0, 1999, 2000, 2001}

\* the logger calls of fetchCats
FetchCatsLogs ==
    { [message |-> "Starting to fetch cats",
       attributes |-> [operation |-> "fetchCats"]],
      [message |-> "Database empty, fetching from external Cat API",
       attributes |-> [operation |-> "fetchCats",
                       externalAPI |-> "thecatapi.com"]],
      [message |-> "Failed to fetch cats",
       attributes |-> [operation |-> "fetchCats", errorType |-> "Error"]] }
    \cup { [message |-> "Cats fetched and saved successfully",
            attributes |-> [duration_ms |-> d, source |-> "external_api"]] :
           d \in Durations }
    \cup { [message |-> "Cats loaded from database",
            attributes |-> [duration_ms |-> d, source |-> "database",
                            operation |-> "fetchCats"]] : d \in Durations }

\* logger calls of fetchWinner, of submitVote and of App.js
OtherLogs ==
    { [message |-> "Fetching current winner",
       attributes |-> [operation |-> "fetchWinner"]],
      [message |-> "Submitting vote",
       attributes |-> [operation |-> "submitVote", voteType |-> "upvote"]],
      [message |-> "App initialized",
       attributes |-> [release |-> "1.0.0"]] }

\* duration < 2000, which is false when duration is undefined
Under2000(attributes) ==
    "duration_ms" \in DOMAIN attributes /\ attributes.duration_ms < 2000

\* beforeSendLog: null, or the log to send
beforeSendLog(log) ==
    IF Field(log.attributes, "operation") = "fetchCats"
    THEN IF Under2000(log.attributes) THEN JsonNull
         ELSE [log EXCEPT !.attributes =
                   [performance_warning |-> TRUE] @@ log.attributes]
    ELSE log

\* Sentry.logger.*: the log goes through beforeSendLog and is sent unless
\* that returned null
Log(log) ==
    /\ sentry.logs < MaxLogs
    /\ sentry' = [sentry EXCEPT
                      !.offered = log,
                      !.result = beforeSendLog(log),
                      !.logs = @ + 1,
                      !.forwarded = IF beforeSendLog(log) = JsonNull
                                    THEN @ ELSE @ + 1]
    /\ UNCHANGED <<store, handle, now, nreq, last, inserted, changes, logged,
                   afterClear, inbox, calls, provider, history>>

----------------------------------------------------------------------------
(* makeRequest on its own: the answers a request may get, from any server. *)

MaxRequests == 3    \* requests made in one run

\* response.status
Statuses == {200, 201, 400, 404, 500}

\* the messages of a rejected fetch, and of a body that cannot be read or
\* parsed (React Native, browsers)
FetchMessages == {"Network request failed", "Failed to fetch"}
BodyMessages ==
    {"JSON Parse error: Unexpected token: <", "Unexpected end of JSON input"}

Responses ==
    { [req |-> 0, op |-> "network", status |-> 0, body |-> m] :
      m \in FetchMessages }
    \cup { [req |-> 0, op |-> "http", status |-> st, body |-> "data"] :
           st \in Statuses }
    \cup { [req |-> 0, op |-> "http", status |-> st, body |-> "",
            unreadable |-> m] : st \in Statuses, m \in BodyMessages }

\* a request through makeRequest, with the captureException calls it makes
Request(res) ==
    /\ sentry.requests < MaxRequests
    /\ sentry' = [sentry EXCEPT
                      !.response = res,
                      !.outcome = makeRequest(res),
                      !.requests = @ + 1,
                      !.captures = @ + makeRequest(res).captured]
    /\ UNCHANGED <<store, handle, now, nreq, last, inserted, changes, logged,
                   afterClear, inbox, calls, provider, history>>

----------------------------------------------------------------------------
(* Specifications. *)

\* What the database file holds when the server opens it: nothing, or the
\* two cats an earlier run seeded.
InitialCats ==
    { {},
      { [id |-> 1, image_url |-> "u1", external_id |-> "a"],
        [id |-> 2, image_url |-> "u2", external_id |-> "b"] } }

\* the file is open, foreign keys are on and the tables exist
Init ==
    /\ cats \in InitialCats
    /\ votes = {}
    /\ monthly_winners = {}
    /\ seq = [cats |-> Cardinality(cats), votes |-> 0, monthly_winners |-> 0]
    /\ queue = << >>
    /\ running = {}
    /\ locked = FALSE
    /\ now = [y |-> 2026, m |-> 9]
    /\ nreq = 0
    /\ last = [req |-> 0, op |-> "none", status |-> 0, body |-> NULL]
    /\ inserted = << >>
    /\ changes = << >>
    /\ logged = [req |-> 0, k |-> 0, stmt |-> "none"]
    /\ afterClear = FALSE
    /\ inbox = << >>
    /\ calls = << >>
    /\ provider = [cats |-> << >>, winner |-> JsonNull, loading |-> FALSE,
                   error |-> NULL]
    /\ history = [issued |-> << >>, shown |-> 0, failed |-> FALSE]
    /\ sentry = [offered |-> JsonNull, result |-> JsonNull, logs |-> 0,
                 forwarded |-> 0, response |-> JsonNull,
                 outcome |-> JsonNull, requests |-> 0, captures |-> 0]

\* a statement of the voting endpoints completes
Complete ==
    \E s \in running : \E fault \in BOOLEAN :
        \/ CompleteAllCats(s, fault)
        \/ CompleteInsertVote(s, fault)
        \/ CompleteInsertCat(s, fault)

\* a delete of the clear endpoint completes
CompleteClear ==
    \E s \in running : \E fault \in BOOLEAN : CompleteDelete(s, fault)

\* the statement of the winner endpoint completes
CompleteWinner ==
    \E s \in running : \E fault \in BOOLEAN : CompleteGetWinner(s, fault)

\* the voting API under concurrent requests
Next ==
    \/ ListCats(0)
    \/ \E body \in VoteBodies : SubmitVote(0, body)
    \/ \E body \in SeedBodies : SeedCats(0, body)
    \/ ClearAll(0)
    \/ Complete
    \/ CompleteClear

Spec == Init /\ [][Next]_vars

\* the winner endpoint, with the table filled from outside and the clock
WinnerNext ==
    \/ GetWinner(0)
    \/ \E w \in WinnerWrites : WriteWinner(w[1], w[2], w[3])
    \/ Tick
    \/ CompleteWinner

WinnerSpec == Init /\ [][WinnerNext]_vars

\* one client of the API: the provider mounts and the user votes
ClientNext ==
    \/ Mount
    \/ \E v \in UserVotes : Vote(v[1], v[2])
    \/ \E t \in CallIds : Deliver(t)
    \/ \E t \in CallIds : \E images \in ExternalImages :
           ExternalFetch(t, images)
    \/ \E t \in CallIds : NetworkFail(t)
    \/ \E t \in CallIds : Resume(t)
    \/ Complete
    \/ CompleteWinner

ClientSpec == Init /\ [][ClientNext]_vars

\* what another client seeds after its own cold start
OtherSeeds == { [cats |-> <<[id |-> "b", url |-> "u2"]>>] }

\* the client at its start, while other clients seed and clear the store
SharedNext ==
    \/ Mount
    \/ \E body \in OtherSeeds : SeedCats(0, body)
    \/ ClearAll(0)
    \/ \E t \in CallIds : Deliver(t)
    \/ \E t \in CallIds : \E images \in ExternalImages :
           ExternalFetch(t, images)
    \/ \E t \in CallIds : NetworkFail(t)
    \/ \E t \in CallIds : Resume(t)
    \/ Complete
    \/ CompleteClear
    \/ CompleteWinner

SharedSpec == Init /\ [][SharedNext]_vars

\* one client whose user votes in quick succession, on a network that
\* delivers every request
OverlapNext ==
    \/ Mount
    \/ \E v \in UserVotes : VoteAgain(v[1], v[2])
    \/ \E t \in CallIds : Deliver(t)
    \/ \E t \in CallIds : \E images \in ExternalImages :
           ExternalFetch(t, images)
    \/ \E t \in CallIds : Resume(t)
    \/ Complete
    \/ CompleteWinner

OverlapSpec == Init /\ [][OverlapNext]_vars

\* the logs of the client on their way through beforeSendLog
LogNext == \E log \in FetchCatsLogs \cup OtherLogs : Log(log)

LogSpec == Init /\ [][LogNext]_vars

\* requests through makeRequest and their answers
RequestNext == \E res \in Responses : Request(res)

RequestSpec == Init /\ [][RequestNext]_vars

----------------------------------------------------------------------------
(* Properties of the voting API. *)

\* the statements that complete in a step
Completed == running \ running'

\* the statements a step hands to the store
Issued ==
    (running' \cup { queue'[i].call : i \in 1..Len(queue') })
    \ (running \cup { queue[i].call : i \in 1..Len(queue) })

\* no statement of request r is queued or in flight
Settled(r) ==
    /\ \A s \in running : s.req # r
    /\ \A i \in 1..Len(queue) : queue[i].call.req # r

CountVotes(vs, id, type) ==
    Cardinality({ v \in vs : v.cat_id = id /\ v.vote_type = type })

Reports(body, cs, vs) ==
    /\ Len(body) = Cardinality(cs)
    /\ \A c \in cs : \E i \in 1..Len(body) :
           /\ body[i].id = c.id
           /\ body[i].image_url = c.image_url
           /\ body[i].upvotes = CountVotes(vs, c.id, "upvote")
           /\ body[i].downvotes = CountVotes(vs, c.id, "downvote")

\* C1: every successful answer of GET /api/cats has exactly one entry per
\* cat row, and the entry of a cat carries the number of vote rows of that
\* cat with vote_type 'upvote' and with vote_type 'downvote' (0 and 0 for a
\* cat without vote rows), whatever the order the votes were submitted in.
C1_ListReportsVoteCounts ==
    [][(last' # last /\ last'.op = "list" /\ last'.status = 200)
           => Reports(last'.body, cats', votes')]_vars

\* C1 witness: a list answer with a cat of one upvote and one downvote and
\* a cat without votes.
C1_Witness ==
    /\ last.op = "list"
    /\ last.status = 200
    /\ \E i, j \in 1..Len(last.body) :
           /\ last.body[i].upvotes = 1 /\ last.body[i].downvotes = 1
           /\ last.body[j].upvotes = 0 /\ last.body[j].downvotes = 0

NoDanglingVote(cs, vs) == \A v \in vs : \E c \in cs : c.id = v.cat_id

\* C2: every vote row refers to an existing cat row at all times, and an
\* INSERT INTO votes for a cat_id that is not in cats is answered with an
\* error (500) and leaves the vote rows as they were.
C2_VotesReferenceCats ==
    /\ NoDanglingVote(cats, votes)
    /\ [][/\ NoDanglingVote(cats', votes')
          /\ \A s \in Completed :
                 (s.kind = "insert_vote" /\ \A c \in cats : c.id # s.cat_id)
                     => /\ last'.req = s.req
                        /\ last'.status = 500
                        /\ votes' = votes]_vars

\* C2 witness: the cats were removed by a clear, and a vote that came
\* after it was refused.
C2_Witness ==
    /\ cats = {}
    /\ seq.cats > 0
    /\ last.op = "vote"
    /\ last.status = 500
    /\ logged.stmt = "insert_vote"

\* what the claims call an invalid vote request
BadVote(body) ==
    \/ "cat_id" \notin DOMAIN body
    \/ "vote_type" \notin DOMAIN body
    \/ ~(body.vote_type = "upvote" \/ body.vote_type = "downvote")

\* C3: a vote request whose vote_type is not 'upvote' or 'downvote', or
\* that lacks vote_type or cat_id, is answered 400, and the request leaves
\* the vote rows unchanged and hands no statement to the store.
C3_InvalidVoteRejected ==
    [][\A body \in VoteBodies :
           (BadVote(body) /\ SubmitVote(0, body))
               => /\ last'.req = nreq'
                  /\ last'.op = "vote"
                  /\ last'.status = 400
                  /\ votes' = votes
                  /\ Issued = {}]_vars

\* C3 witness: a vote request was answered 400 while vote rows exist.
C3_Witness ==
    /\ last.op = "vote"
    /\ last.status = 400
    /\ votes # {}

\* C4: seeding is idempotent per external_id.  No two cat rows share an
\* external_id; an INSERT OR IGNORE of an {id, url} element that the store
\* executes leaves exactly one row with that external_id; and no insert
\* changes or removes a row that exists.
C4_SeedIdempotent ==
    [][/\ \A c, d \in cats' :
              (c.external_id = d.external_id /\ c.external_id # NULL) => c = d
       /\ \A s \in Completed :
              s.kind = "insert_cat" =>
                  /\ cats \subseteq cats'
                  /\ (logged' = logged /\ s.url # NULL /\ s.ext # NULL)
                         => Cardinality({ c \in cats' :
                                            c.external_id = s.ext }) = 1]_vars

\* C4 witness: a call that re-submitted external_id "a" with another url
\* has completed, and the row first created for "a" is as it was.
C4_Witness ==
    /\ last.op = "seed"
    /\ last.status = 200
    /\ Settled(last.req)
    /\ inserted[last.req] = 1
    /\ changes[last.req] = 0
    /\ [id |-> 1, image_url |-> "u1", external_id |-> "a"] \in cats

\* C5 (as claimed): once the statements of a POST /api/cats call are done,
\* the `inserted' of its answer is the number of rows the call created.
C5_InsertedCountsCreatedRows ==
    (last.op = "seed" /\ last.status = 200 /\ Settled(last.req))
        => last.body.inserted = changes[last.req]

\* C7 (as claimed): a GET /api/cats received after POST /api/clear has
\* answered success, with no write requested and no delete failed since,
\* is answered with the empty list.
C7_ListAfterClearIsEmpty ==
    [][\A s \in Completed :
           (s.kind = "all_cats" /\ s.after /\ afterClear
                /\ last'.status = 200)
               => last'.body = << >>]_vars

\* C8 (as claimed): when a statement of a request fails, that request is
\* answered with a server error.
C8_StoreFailureGives5xx ==
    [][logged' # logged
           => /\ last' # last
              /\ last'.req = logged'.req
              /\ last'.status >= 500]_vars

\* what the claims call a malformed seed request
BadSeed(body) ==
    \/ "cats" \notin DOMAIN body
    \/ body.cats = << >>
    \/ \E k \in 1..Len(body.cats) :
           \/ body.cats[k] = JsonNull
           \/ "id" \notin DOMAIN body.cats[k]
           \/ "url" \notin DOMAIN body.cats[k]

\* C9 (as claimed): a malformed vote or seed request is answered 400
\* before any statement is handed to the store.
C9_MalformedInputRejectedFirst ==
    [][/\ \A body \in VoteBodies :
              (BadVote(body) /\ SubmitVote(0, body))
                  => (last'.req = nreq' /\ last'.status = 400 /\ Issued = {})
       /\ \A body \in SeedBodies :
              (BadSeed(body) /\ SeedCats(0, body))
                  => (last'.req = nreq' /\ last'.status = 400 /\ Issued = {})
      ]_vars

----------------------------------------------------------------------------
(* Properties of the winner endpoint. *)

\* the YYYY-MM key of the months the clock passes through
KeyOf(d) ==
    CASE d = [y |-> 2026, m |-> 9] -> "2026-09"
      [] d = [y |-> 2026, m |-> 10] -> "2026-10"
      [] d = [y |-> 2026, m |-> 11] -> "2026-11"
      [] d = [y |-> 2026, m |-> 12] -> "2026-12"
      [] OTHER -> "none"

\* the answer made of winner row w
WinnerOf(w, cs) ==
    [id |-> w.cat_id,
     image_url |-> (CHOOSE c \in cs : c.id = w.cat_id).image_url,
     upvote_count |-> w.upvote_count]

\* C6: GET /api/winner looks up the YYYY-MM key of the month it is received
\* in.  Unless the store fails, it answers 200 with null when
\* monthly_winners has no row of that month_year, and otherwise with
\* {id, image_url, upvote_count} of a row of that month_year whose
\* upvote_count is the maximum among the rows of that month.
C6_WinnerOfCurrentMonth ==
    [][/\ \A s \in Issued : s.kind = "get_winner" => s.month = KeyOf(now)
       /\ \A s \in Completed :
              (s.kind = "get_winner" /\ logged' = logged) =>
                  LET M == { w \in monthly_winners : w.month_year = s.month }
                  IN  /\ last'.req = s.req
                      /\ last'.status = 200
                      /\ M = {} => last'.body = JsonNull
                      /\ M # {} =>
                             \E w \in M :
                                 /\ \A x \in M :
                                        x.upvote_count <= w.upvote_count
                                 /\ last'.body = WinnerOf(w, cats)]_vars

\* C6 witness: the month has two rows of different upvote_count and the
\* answer carries the larger; the clock has moved on from September.
C6_Witness ==
    /\ last.op = "winner"
    /\ last.status = 200
    /\ last.body # JsonNull
    /\ now.m = 10
    /\ \E w, x \in monthly_winners :
           /\ w.month_year = "2026-10"
           /\ x.month_year = "2026-10"
           /\ x.upvote_count < w.upvote_count
           /\ last.body.upvote_count = w.upvote_count

\* C6 witness of the other case: rows exist, none of the current month,
\* and the answer is null.
C6_WitnessNull ==
    /\ last.op = "winner"
    /\ last.status = 200
    /\ last.body = JsonNull
    /\ monthly_winners # {}

----------------------------------------------------------------------------
(* Properties of the client data layer. *)

\* the write and the two refreshes among the operations of a call
IsStage(x) == x \in {"vote", "fetchCats", "fetchWinner"}
Stages(c) == SelectSeq(c.trace, IsStage)

\* the call is inside fetchCats
InFetchCats(c) == c.pc \in {"list1", "external", "seed", "list2"}

\* C10: submitVote performs the write first.  When the await of the write
\* resumes without an exception the call runs fetchCats and, once that
\* has returned, fetchWinner: both, in that order, once each.  When the
\* await throws, neither is run, the message of the exception is stored in
\* the error field and the call ends without writing again.
C10_SubmitVoteRefreshesUnlessThrown ==
    [][\A t \in 1..Len(calls') :
           calls'[t].root = "submitVote" =>
               LET c == calls'[t]
               IN  /\ c.trace[1] = "vote"
                   /\ c.wrote = "pending" =>
                          c.pc = "vote" /\ c.trace = <<"vote">>
                   /\ c.wrote = "returned" =>
                          \/ InFetchCats(c)
                             /\ Stages(c) = <<"vote", "fetchCats">>
                          \/ c.pc \in {"winner", "done"}
                             /\ Stages(c) =
                                    <<"vote", "fetchCats", "fetchWinner">>
                   /\ c.wrote = "threw" =>
                          /\ c.pc = "done"
                          /\ c.trace = <<"vote">>
                          /\ ~c.inflight
                          /\ t \notin DOMAIN inbox'
                   /\ (t <= Len(calls) /\ calls[t].wrote # c.wrote) =>
                          /\ calls[t].wrote = "pending"
                          /\ t \in DOMAIN inbox
                          /\ LET o == makeRequest(inbox[t])
                             IN  IF o.threw
                                 THEN /\ c.wrote = "threw"
                                      /\ provider'.error = o.message
                                 ELSE /\ c.wrote = "returned"
                                      /\ c.pc = "list1"
                   /\ (t <= Len(calls) /\ calls[t].pc = "done") =>
                          c = calls[t]]_vars

\* C10 witness: a vote was written, the list was read again and shows the
\* vote, then the winner was read, and the call has ended.
C10_Witness ==
    \E t \in 1..Len(calls) :
        /\ calls[t].root = "submitVote"
        /\ calls[t].wrote = "returned"
        /\ calls[t].pc = "done"
        /\ calls[t].trace =
               <<"vote", "fetchCats", "list1", "fetchWinner", "winner">>
        /\ \E k \in 1..Len(provider.cats) :
               provider.cats[k].upvotes + provider.cats[k].downvotes = 1

\* C10 witness of the other case: the write was answered with status 500,
\* the call has ended after the write and error holds the message.
C10_WitnessThrew ==
    \E t \in 1..Len(calls) :
        /\ calls[t].root = "submitVote"
        /\ calls[t].wrote = "threw"
        /\ calls[t].pc = "done"
        /\ votes = {}
        /\ provider.error = "API Error: 500"

\* the call sends its request to the external image source in this step
CallsExternal(t) ==
    /\ calls'[t].pc = "external"
    /\ calls'[t].inflight
    /\ calls[t].pc # "external"

\* C11: at the moment a call sends the request to the external image
\* source, the cats table is empty.
C11_ExternalOnlyWhenStoreEmpty ==
    [][\A t \in 1..Len(calls) : CallsExternal(t) => cats = {}]_vars

\* call t was inside fetchCats before the step
WasInFetchCats(t) == t <= Len(calls) /\ InFetchCats(calls[t])

\* what the await of call t resumes with in this step
Outcome(t) ==
    IF calls[t].pc = "external" THEN awaitExternal(inbox[t])
    ELSE makeRequest(inbox[t])

\* C12: a fetchCats cycle starts with loading true and error cleared;
\* loading stays true while any cycle is in flight; the cycle ends with
\* loading false and either cats replaced by the fetched list and error
\* still null, or error holding the message of the failure.
C12_FetchCycle ==
    [][/\ (\E t \in 1..Len(calls') : InFetchCats(calls'[t]))
              => provider'.loading
       /\ \A t \in 1..Len(calls') :
              /\ (~WasInFetchCats(t) /\ InFetchCats(calls'[t])) =>
                     provider'.loading /\ provider'.error = NULL
              /\ (WasInFetchCats(t) /\ ~InFetchCats(calls'[t])) =>
                     IF Outcome(t).threw
                     THEN provider'.error = Outcome(t).message
                     ELSE /\ provider'.cats = Outcome(t).data
                          /\ provider'.error = NULL]_vars

\* the requests of the fetchCats cycle of a call, in the order sent
IsCycleRequest(x) == x \in {"list1", "external", "seed", "list2"}
Cycle(c) == SelectSeq(c.trace, IsCycleRequest)

ColdStart == <<"list1", "external", "seed", "list2">>

\* call t resumes inside fetchCats in this step
ResumesInFetchCats(t) ==
    /\ WasInFetchCats(t)
    /\ t \in DOMAIN inbox
    /\ t \notin DOMAIN inbox'

\* C13 (as amended): the requests of a cycle are a prefix of list, external
\* fetch, seed, list, each sent once and the next one only when the one
\* before has returned; the external fetch is sent exactly when the first
\* list returned zero cats, the seed carries the fetched set, and the
\* result of the second list becomes cats.  When the external fetch, the
\* seed or the second list fails, the cycle ends there: no further
\* request, error holds the message.
C13_ColdStartInOrder ==
    [][\A t \in 1..Len(calls) :
           LET c == calls[t]
               d == calls'[t]
           IN  /\ \E n \in 0..4 : Cycle(d) = SubSeq(ColdStart, 1, n)
               /\ ~ResumesInFetchCats(t) =>
                      (Cycle(d) = Cycle(c) \/ Cycle(c) = << >>)
               /\ ResumesInFetchCats(t) =>
                      IF Outcome(t).threw
                      THEN /\ ~InFetchCats(d)
                           /\ Cycle(d) = Cycle(c)
                           /\ provider'.error = Outcome(t).message
                      ELSE IF c.pc = "list1" /\ Len(Outcome(t).data) = 0
                      THEN d.pc = "external" /\ d.inflight
                           /\ Cycle(d) = SubSeq(ColdStart, 1, 2)
                      ELSE IF c.pc = "external"
                      THEN d.pc = "seed" /\ d.inflight
                           /\ d.fetched = Outcome(t).data
                           /\ Cycle(d) = SubSeq(ColdStart, 1, 3)
                      ELSE IF c.pc = "seed"
                      THEN d.pc = "list2" /\ d.inflight
                           /\ Cycle(d) = ColdStart
                      ELSE /\ ~InFetchCats(d)
                           /\ Cycle(d) = Cycle(c)
                           /\ provider'.cats = Outcome(t).data]_vars

\* C13 witness: a cold start has run to its end: the four requests were
\* sent and cats is the one-cat list the second list returned.
C13_Witness ==
    /\ Len(calls) > 0
    /\ Cycle(calls[1]) = ColdStart
    /\ calls[1].pc = "done"
    /\ calls[1].fetched = <<[id |-> "a", url |-> "u1"]>>
    /\ Len(provider.cats) = 1
    /\ provider.cats[1].image_url = "u1"

\* C13 (as stated): a cycle whose first list returned zero cats ends either
\* after the four requests with cats the result of the second list, or at
\* the external fetch that failed, with error set.
C13_ColdStartAlwaysCompletes ==
    [][\A t \in 1..Len(calls) :
           (/\ ResumesInFetchCats(t)
            /\ ~InFetchCats(calls'[t])
            /\ Len(Cycle(calls[t])) > 1)
               => \/ /\ calls[t].pc = "external"
                     /\ Outcome(t).threw
                     /\ provider'.error = Outcome(t).message
                  \/ /\ calls[t].pc = "list2"
                     /\ ~Outcome(t).threw
                     /\ provider'.cats = Outcome(t).data]_vars

\* C14: when the fetchCats cycles of the client have all ended and none
\* has failed, cats is the result of the list request sent last.
C14_CatsFromLatestRequest ==
    (/\ history.issued # << >>
     /\ ~history.failed
     /\ \A t \in 1..Len(calls) : ~InFetchCats(calls[t]))
        => history.shown = Len(history.issued)

\* C15: handleVote has logged 'Vote completed successfully' only for a
\* vote the backend has recorded, and has logged 'Vote failed' for every
\* vote whose request failed.
C15_VoteLogsFollowOutcome ==
    \A t \in 1..Len(calls) :
        calls[t].root = "submitVote" =>
            /\ calls[t].screen = "Vote completed successfully"
                   => calls[t].wrote = "returned"
            /\ calls[t].wrote = "threw" => calls[t].screen = "Vote failed"

----------------------------------------------------------------------------
(* Properties of the Sentry hooks. *)

\* the log is a fetchCats log as beforeSendLog sees it
OfFetchCats(log) == Field(log.attributes, "operation") = "fetchCats"

\* the log reports an operation of at least two seconds
Slow(log) ==
    "duration_ms" \in DOMAIN log.attributes
        /\ log.attributes.duration_ms >= 2000

\* the log reports the duration of a fetchCats cycle
PerformanceLog(log) ==
    log \in FetchCatsLogs /\ "duration_ms" \in DOMAIN log.attributes

\* C16: a log with operation 'fetchCats' is forwarded exactly when its
\* duration_ms is at least 2000; performance_warning is set only on such
\* logs; a performance log of a fetchCats cycle under two seconds is
\* discarded; a log of another operation is forwarded unchanged.
C16_OnlySlowFetchCatsLogs ==
    sentry.logs > 0 =>
        LET log == sentry.offered
            out == sentry.result
        IN  /\ OfFetchCats(log) => (out # JsonNull <=> Slow(log))
            /\ (out # JsonNull
                   /\ "performance_warning" \in DOMAIN out.attributes)
                   => Slow(log)
            /\ (PerformanceLog(log) /\ ~Slow(log)) => out = JsonNull
            /\ (~OfFetchCats(log) /\ ~PerformanceLog(log)) => out = log

\* the request gets an answer that makeRequest turns into an exception
ShouldThrow(res) ==
    \/ res.op = "network"
    \/ "unreadable" \in DOMAIN res
    \/ res.status < 200
    \/ res.status > 299

\* C17: makeRequest throws exactly when the status is not ok, the network
\* failed or the body could not be read, and every error it throws was
\* passed to Sentry.captureException exactly once; a request that returns
\* captures nothing.
C17_ThrownErrorsCapturedOnce ==
    sentry.requests > 0 =>
        /\ sentry.outcome.threw = ShouldThrow(sentry.response)
        /\ sentry.outcome.captured = IF sentry.outcome.threw THEN 1 ELSE 0
        /\ sentry.captures <= sentry.requests

\* C17 witness: a 500, a failed network and an unreadable body have each
\* been thrown; the last one is the HTTP error, with three captures in
\* all.
C17_Witness ==
    /\ sentry.requests = 3
    /\ sentry.captures = 3
    /\ sentry.response.status = 500
    /\ "unreadable" \notin DOMAIN sentry.response
    /\ sentry.outcome.threw
    /\ sentry.outcome.message = "API Error: 500"
    /\ sentry.outcome.captured = 1

----------------------------------------------------------------------------
(* Properties of the winner screen. *)

\* C18: when the screen is not loading and the list is not empty, the
\* screen shows a cat of the list whose net score is the largest of the
\* list; it shows 'No votes yet!' only when no cat of the list has a vote.
C18_ShowsHighestNetScore ==
    (~provider.loading /\ Len(provider.cats) > 0) =>
        LET cs == provider.cats
            w == WinnerShown(cs)
        IN  IF w = JsonNull
            THEN \A k \in 1..Len(cs) :
                     cs[k].upvotes = 0 /\ cs[k].downvotes = 0
            ELSE /\ \E k \in 1..Len(cs) : cs[k] = w
                 /\ \A k \in 1..Len(cs) : Score(cs[k]) <= Score(w)

====
